---- MODULE Spec2Model ----
(***************************************************************************)
(* SaveTogether: the membership and contribution workflows of src/app.py   *)
(* over the tables groups, group_members, contributions and notifications. *)
(* Every route handler is one action: its guard comes from the handler's   *)
(* early returns, its effect from the statements it commits.               *)
(***************************************************************************)
EXTENDS Integers, Sequences, FiniteSets

\* ------------------------------------------------------------------ bounds
\* Registered users (registration itself is not modelled).
NumUsers == 2
\* Rows the tables groups and contributions may grow to, and unread rows the
\* table notifications may hold: a handler whose writes would exceed one of
\* them is not taken.
MaxGroups == 2
MaxContribs == 1
MaxNotifs == 4
\* Requests that may be between their checks and their writes at once.
NumSlots == 2

Users == 1..NumUsers
GroupIds == 1..MaxGroups
ContribIds == 1..MaxContribs
Slots == 1..NumSlots
\* request.form['amount'] goes through float() and nothing else: any sign.
Amounts == {0 - 1, 0, 1}
\* request.form['target_amount']
Targets == {0, 1}
\* request.form['name']: empty or not.
Names == {"", "name"}
\* request.files['proof_image']: no part, a part with an empty filename, a file.
Uploads == {"absent", "empty", "file"}

VARIABLES
    groups,         \* table groups, row id = index
    group_members,  \* table group_members, row id = index
    contributions,  \* table contributions, row id = index
    notifications,  \* table notifications, row id = index
    last,           \* the last request answered and its response
    inflight,       \* per worker: the request that has run its checks, not yet its writes
    page            \* what the last read-only endpoint rendered

vars == <<groups, group_members, contributions, notifications, last, inflight, page>>

\* ------------------------------------------------------------ table rows
GroupRow(name, target, u, code) ==
    [name |-> name, target_amount |-> target, created_by |-> u, invite_code |-> code]

MemberRow(g, u, status) == [group_id |-> g, user_id |-> u, status |-> status]

ContributionRow(g, u, amount, proof, status) ==
    [group_id |-> g, user_id |-> u, amount |-> amount, proof_image |-> proof,
     status |-> status]

NotificationRow(u, g, message) ==
    [user_id |-> u, group_id |-> g, message |-> message, is_read |-> FALSE]

\* One request and its response.
Call(op, u, g, target, result) ==
    [op |-> op, user |-> u, group |-> g, target |-> target, result |-> result]

\* A worker with no request between its checks and its writes.
Idle == [op |-> "idle", user |-> 0, group |-> 0]

\* What a read-only endpoint answers: the total and the percentage it
\* computed, or a refusal.
Page(endpoint, u, g, answer, total_contributed, percentage) ==
    [endpoint |-> endpoint, user |-> u, group |-> g, answer |-> answer,
     total_contributed |-> total_contributed, percentage |-> percentage]

\* No read-only endpoint has answered yet.
NoPage == [endpoint |-> "none"]

\* ------------------------------------------------------------- queries
\* SELECT ... FROM groups WHERE id = ?  (0: no row)
GroupExists(g) == g \in DOMAIN groups

\* SELECT id, created_by, name FROM groups WHERE invite_code = ?  (0: no row)
GroupByInviteCode(code) ==
    LET hits == {g \in DOMAIN groups : groups[g].invite_code = code}
    IN  IF hits = {} THEN 0 ELSE CHOOSE g \in hits : \A h \in hits : g <= h

\* `not group or group['created_by'] != current_user.id` is false
\* (faulty variant: the creator is not compared with the caller)
IsAdminAnyUser(g, u) == GroupExists(g)
IsAdmin(g, u) == GroupExists(g) /\ groups[g].created_by = u

\* SELECT id, status FROM group_members WHERE group_id = ? AND user_id = ?
MembershipRows(g, u) ==
    {i \in DOMAIN group_members :
        group_members[i].group_id = g /\ group_members[i].user_id = u}

\* ... AND status IN (...)
MembershipRowsIn(g, u, statuses) ==
    {i \in MembershipRows(g, u) : group_members[i].status \in statuses}

\* join_group: `existing`
\* (faulty variant: a rejected row does not count as existing)
ExistingNotRejected(g, u) == MembershipRowsIn(g, u, {"pending", "active"})
Existing(g, u) == MembershipRows(g, u)

\* group_detail / contribute: ... AND status = 'active'
\* (faulty variant: the status filter is missing, as in export_group_data)
IsActiveMemberAnyStatus(g, u) == MembershipRows(g, u) # {}
IsActiveMember(g, u) == MembershipRowsIn(g, u, {"active"}) # {}

\* SELECT user_id FROM group_members WHERE group_id = ? AND status = 'active',
\* in row order, without the users in `except`.
\* (faulty variant: the status filter is missing)
ActiveMemberIdsAnyStatus(g, except) ==
    SelectSeq(group_members,
              LAMBDA r : r.group_id = g /\ r.user_id \notin except)
ActiveMemberIds(g, except) ==
    SelectSeq(group_members,
              LAMBDA r : r.group_id = g /\ r.status = "active" /\ r.user_id \notin except)

\* UNIQUE(group_id, user_id) of group_members
\* (faulty variant: the table has no such constraint)
UniqueViolationNever(table, g, u) == FALSE
UniqueViolation(table, g, u) ==
    \E i \in DOMAIN table : table[i].group_id = g /\ table[i].user_id = u

\* UPDATE group_members SET status = ? WHERE group_id = ? AND user_id = ?
\* (faulty variant: the WHERE clause names the group only)
UpdateMemberStatusWholeGroup(table, g, u, status) ==
    [i \in DOMAIN table |->
        IF table[i].group_id = g
        THEN [table[i] EXCEPT !.status = status]
        ELSE table[i]]
UpdateMemberStatus(table, g, u, status) ==
    [i \in DOMAIN table |->
        IF table[i].group_id = g /\ table[i].user_id = u
        THEN [table[i] EXCEPT !.status = status]
        ELSE table[i]]

\* UPDATE contributions SET status = ? WHERE id = ?
UpdateContributionStatus(table, c, status) ==
    [i \in DOMAIN table |->
        IF i = c THEN [table[i] EXCEPT !.status = status] ELSE table[i]]

\* SELECT ... FROM notifications WHERE is_read = FALSE: how many rows.
Unread(table) == Len(SelectSeq(table, LAMBDA n : ~n.is_read))

\* One INSERT INTO notifications per row of `members`.
NotifyEach(members, g, message) ==
    [i \in DOMAIN members |-> NotificationRow(members[i].user_id, g, message)]

\* ------------------------------------------------------------------ state
Init ==
    /\ groups = <<>>
    /\ group_members = <<>>
    /\ contributions = <<>>
    /\ notifications = <<>>
    /\ last = Call("none", 0, 0, 0, "none")
    /\ inflight = [s \in Slots |-> Idle]
    /\ page = NoPage

\* ------------------------------------------------------- create_group
\* (faulty variant: the target amount is not checked)
CreateGroupAnyTarget(u, name, target) ==
    /\ UNCHANGED <<inflight, page>>
    /\ IF name = ""
       THEN /\ last' = Call("create_group", u, 0, 0, "InvalidInput")
            /\ UNCHANGED <<groups, group_members, contributions, notifications>>
       ELSE LET g == Len(groups) + 1 IN
            /\ Len(groups) < MaxGroups
            /\ groups' = Append(groups, GroupRow(name, target, u, g))
            /\ group_members' = Append(group_members, MemberRow(g, u, "active"))
            /\ last' = Call("create_group", u, g, 0, "Success")
            /\ UNCHANGED <<contributions, notifications>>
CreateGroup(u, name, target) ==
    /\ UNCHANGED <<inflight, page>>
    /\ IF name = "" \/ target <= 0
       THEN /\ last' = Call("create_group", u, 0, 0, "InvalidInput")
            /\ UNCHANGED <<groups, group_members, contributions, notifications>>
       ELSE LET g == Len(groups) + 1 IN
            /\ Len(groups) < MaxGroups
            /\ groups' = Append(groups, GroupRow(name, target, u, g))
            /\ group_members' = Append(group_members, MemberRow(g, u, "active"))
            /\ last' = Call("create_group", u, g, 0, "Success")
            /\ UNCHANGED <<contributions, notifications>>

\* --------------------------------------------------------- join_group
\* The INSERT and the two notifications, committed together; the INSERT raises
\* on the UNIQUE constraint and nothing is committed.
\* (faulty variant: the requester is not notified)
JoinInsertAdminOnly(u, g) ==
    IF UniqueViolation(group_members, g, u)
    THEN /\ last' = Call("join_group", u, g, 0, "IntegrityError")
         /\ UNCHANGED <<group_members, notifications>>
    ELSE /\ Unread(notifications) + 1 <= MaxNotifs
         /\ group_members' = Append(group_members, MemberRow(g, u, "pending"))
         /\ notifications' = notifications \o
                <<NotificationRow(groups[g].created_by, g, "join_requested")>>
         /\ last' = Call("join_group", u, g, 0, "Success")
JoinInsert(u, g) ==
    IF UniqueViolation(group_members, g, u)
    THEN /\ last' = Call("join_group", u, g, 0, "IntegrityError")
         /\ UNCHANGED <<group_members, notifications>>
    ELSE /\ Unread(notifications) + 2 <= MaxNotifs
         /\ group_members' = Append(group_members, MemberRow(g, u, "pending"))
         /\ notifications' = notifications \o
                <<NotificationRow(groups[g].created_by, g, "join_requested"),
                  NotificationRow(u, g, "join_pending")>>
         /\ last' = Call("join_group", u, g, 0, "Success")

JoinGroup(u, code) ==
    LET g == GroupByInviteCode(code) IN
    /\ UNCHANGED <<groups, contributions, inflight, page>>
    /\ IF g = 0
       THEN /\ last' = Call("join_group", u, 0, 0, "InvalidCode")
            /\ UNCHANGED <<group_members, notifications>>
       ELSE IF Existing(g, u) # {}
       THEN /\ last' = Call("join_group", u, g, 0, "AlreadyMember")
            /\ UNCHANGED <<group_members, notifications>>
       ELSE JoinInsert(u, g)

\* ------------------------------------------------------ approve_member
\* status IN ('pending', 'rejected')
\* (faulty variant: active rows are approved again)
ApprovableStatusesAll == {"pending", "rejected", "active"}
ApprovableStatuses == {"pending", "rejected"}

ApproveMember(u, g, target) ==
    /\ UNCHANGED <<groups, contributions, inflight, page>>
    /\ IF ~IsAdmin(g, u)
       THEN /\ last' = Call("approve_member", u, g, target, "Unauthorized")
            /\ UNCHANGED <<group_members, notifications>>
       ELSE IF MembershipRowsIn(g, target, ApprovableStatuses) = {}
       THEN /\ last' = Call("approve_member", u, g, target, "NotFound")
            /\ UNCHANGED <<group_members, notifications>>
       ELSE /\ Unread(notifications) + 1 <= MaxNotifs
            /\ group_members' = UpdateMemberStatus(group_members, g, target, "active")
            /\ notifications' =
                    Append(notifications, NotificationRow(target, g, "join_approved"))
            /\ last' = Call("approve_member", u, g, target, "Success")

\* ------------------------------------------------------- reject_member
\* status = 'pending'
\* (faulty variant: active rows can be rejected)
RejectableStatusesAll == {"pending", "active"}
RejectableStatuses == {"pending"}

RejectMember(u, g, target) ==
    /\ UNCHANGED <<groups, contributions, inflight, page>>
    /\ IF ~IsAdmin(g, u)
       THEN /\ last' = Call("reject_member", u, g, target, "Unauthorized")
            /\ UNCHANGED <<group_members, notifications>>
       ELSE IF MembershipRowsIn(g, target, RejectableStatuses) = {}
       THEN /\ last' = Call("reject_member", u, g, target, "NotFound")
            /\ UNCHANGED <<group_members, notifications>>
       ELSE /\ Unread(notifications) + 1 <= MaxNotifs
            /\ group_members' = UpdateMemberStatus(group_members, g, target, "rejected")
            /\ notifications' =
                    Append(notifications, NotificationRow(target, g, "join_rejected"))
            /\ last' = Call("reject_member", u, g, target, "Success")

\* ---------------------------------------------------------- contribute
\* proof_image stays None unless a file with a non-empty filename was sent.
ProofImage(upload) == IF upload = "file" THEN "proof" ELSE "None"

\* status = 'pending' if proof_image else 'approved'
\* (faulty variant: the column default 'pending' whatever the proof)
InitialStatusAlwaysPending(proof_image) == "pending"
InitialStatus(proof_image) == IF proof_image # "None" THEN "pending" ELSE "approved"

\* (faulty variant: the creator is told of auto-approved contributions too)
ContributeAlsoToCreator(u, g, amount, upload) ==
    /\ UNCHANGED <<groups, group_members, inflight, page>>
    /\ IF ~IsActiveMember(g, u)
       THEN /\ last' = Call("contribute", u, g, 0, "NotAMember")
            /\ UNCHANGED <<contributions, notifications>>
       ELSE LET proof_image == ProofImage(upload)
                status == InitialStatus(proof_image)
                admin_id == groups[g].created_by
                added == IF status = "pending"
                         THEN <<NotificationRow(admin_id, g, "contribution_submitted")>>
                         ELSE <<NotificationRow(admin_id, g, "contribution_submitted")>>
                              \o NotifyEach(ActiveMemberIds(g, {u}), g, "contributed")
            IN  /\ Len(contributions) < MaxContribs
                /\ Unread(notifications) + Len(added) <= MaxNotifs
                /\ contributions' = Append(contributions,
                        ContributionRow(g, u, amount, proof_image, status))
                /\ notifications' = notifications \o added
                /\ last' = Call("contribute", u, g, Len(contributions) + 1, "Success")
Contribute(u, g, amount, upload) ==
    /\ UNCHANGED <<groups, group_members, inflight, page>>
    /\ IF ~IsActiveMember(g, u)
       THEN /\ last' = Call("contribute", u, g, 0, "NotAMember")
            /\ UNCHANGED <<contributions, notifications>>
       ELSE LET proof_image == ProofImage(upload)
                status == InitialStatus(proof_image)
                admin_id == groups[g].created_by
                added == IF status = "pending"
                         THEN <<NotificationRow(admin_id, g, "contribution_submitted")>>
                         ELSE NotifyEach(ActiveMemberIds(g, {u}), g, "contributed")
            IN  /\ Len(contributions) < MaxContribs
                /\ Unread(notifications) + Len(added) <= MaxNotifs
                /\ contributions' = Append(contributions,
                        ContributionRow(g, u, amount, proof_image, status))
                /\ notifications' = notifications \o added
                /\ last' = Call("contribute", u, g, Len(contributions) + 1, "Success")

\* ------------------------------------------------ approve_contribution
\* SELECT ... FROM contributions WHERE id = ? AND group_id = ? AND status = ?
\* (faulty variant: the row is looked up by id alone)
ContributionRowsAnyGroup(c, g, status) ==
    {i \in DOMAIN contributions : i = c /\ contributions[i].status = status}
ContributionRows(c, g, status) ==
    {i \in DOMAIN contributions :
        i = c /\ contributions[i].group_id = g /\ contributions[i].status = status}

\* approve_contribution: `contribution`
\* (faulty variant: the status filter is missing)
ApprovableContributionAnyStatus(c, g) ==
    {i \in DOMAIN contributions : i = c /\ contributions[i].group_id = g}
ApprovableContribution(c, g) == ContributionRows(c, g, "pending")

ApproveContribution(u, g, c) ==
    /\ UNCHANGED <<groups, group_members, inflight, page>>
    /\ IF ~IsAdmin(g, u)
       THEN /\ last' = Call("approve_contribution", u, g, c, "Unauthorized")
            /\ UNCHANGED <<contributions, notifications>>
       ELSE IF ApprovableContribution(c, g) = {}
       THEN /\ last' = Call("approve_contribution", u, g, c, "NotFound")
            /\ UNCHANGED <<contributions, notifications>>
       ELSE LET contributor == contributions[c].user_id
                added == <<NotificationRow(contributor, g, "contribution_approved")>>
                         \o NotifyEach(ActiveMemberIds(g, {contributor, u}), g, "contributed")
            IN  /\ Unread(notifications) + Len(added) <= MaxNotifs
                /\ contributions' = UpdateContributionStatus(contributions, c, "approved")
                /\ notifications' = notifications \o added
                /\ last' = Call("approve_contribution", u, g, c, "Success")

\* ------------------------------------------------- reject_contribution
\* reject_contribution: `contribution`
\* (faulty variant: the status filter is missing)
RejectableContributionAnyStatus(c, g) ==
    {i \in DOMAIN contributions : i = c /\ contributions[i].group_id = g}
RejectableContribution(c, g) == ContributionRows(c, g, "pending")

\* (faulty variant: the other active members are told as well)
RejectContributionTellsMembers(u, g, c) ==
    /\ UNCHANGED <<groups, group_members, inflight, page>>
    /\ IF ~IsAdmin(g, u)
       THEN /\ last' = Call("reject_contribution", u, g, c, "Unauthorized")
            /\ UNCHANGED <<contributions, notifications>>
       ELSE IF RejectableContribution(c, g) = {}
       THEN /\ last' = Call("reject_contribution", u, g, c, "NotFound")
            /\ UNCHANGED <<contributions, notifications>>
       ELSE /\ Unread(notifications) + 1 <= MaxNotifs
            /\ contributions' = UpdateContributionStatus(contributions, c, "rejected")
            /\ notifications' = Append(notifications,
                    NotificationRow(contributions[c].user_id, g, "contribution_rejected"))
                    \o NotifyEach(ActiveMemberIds(g, {contributions[c].user_id, u}),
                                  g, "contribution_rejected")
            /\ last' = Call("reject_contribution", u, g, c, "Success")
RejectContribution(u, g, c) ==
    /\ UNCHANGED <<groups, group_members, inflight, page>>
    /\ IF ~IsAdmin(g, u)
       THEN /\ last' = Call("reject_contribution", u, g, c, "Unauthorized")
            /\ UNCHANGED <<contributions, notifications>>
       ELSE IF RejectableContribution(c, g) = {}
       THEN /\ last' = Call("reject_contribution", u, g, c, "NotFound")
            /\ UNCHANGED <<contributions, notifications>>
       ELSE /\ Unread(notifications) + 1 <= MaxNotifs
            /\ contributions' = UpdateContributionStatus(contributions, c, "rejected")
            /\ notifications' = Append(notifications,
                    NotificationRow(contributions[c].user_id, g, "contribution_rejected"))
            /\ last' = Call("reject_contribution", u, g, c, "Success")

Next ==
    \/ \E u \in Users, name \in Names, target \in Targets : CreateGroup(u, name, target)
    \/ \E u \in Users, code \in GroupIds : JoinGroup(u, code)
    \/ \E u \in Users, g \in GroupIds, target \in Users : ApproveMember(u, g, target)
    \/ \E u \in Users, g \in GroupIds, target \in Users : RejectMember(u, g, target)
    \/ \E u \in Users, g \in GroupIds, amount \in Amounts, upload \in Uploads :
            Contribute(u, g, amount, upload)
    \/ \E u \in Users, g \in GroupIds, c \in ContribIds : ApproveContribution(u, g, c)
    \/ \E u \in Users, g \in GroupIds, c \in ContribIds : RejectContribution(u, g, c)

Spec == Init /\ [][Next]_vars

\* ------------------------------------------- join_group, two requests
\* Each request runs on a connection of its own. Its SELECTs run outside a
\* transaction; its INSERTs form one transaction, which holds the database's
\* write lock until commit, so the writes of two requests never interleave.
JoinBegin(s, u, code) ==
    LET g == GroupByInviteCode(code) IN
    /\ inflight[s] = Idle
    /\ UNCHANGED <<groups, group_members, contributions, notifications, page>>
    /\ IF g = 0
       THEN /\ last' = Call("join_group", u, 0, 0, "InvalidCode")
            /\ UNCHANGED inflight
       ELSE IF Existing(g, u) # {}
       THEN /\ last' = Call("join_group", u, g, 0, "AlreadyMember")
            /\ UNCHANGED inflight
       ELSE /\ inflight' = [inflight EXCEPT ![s] = [op |-> "join_group", user |-> u, group |-> g]]
            /\ UNCHANGED last

JoinCommit(s) ==
    /\ inflight[s].op = "join_group"
    /\ inflight' = [inflight EXCEPT ![s] = Idle]
    /\ UNCHANGED <<groups, contributions, page>>
    /\ JoinInsert(inflight[s].user, inflight[s].group)

NextConc ==
    \/ \E u \in Users, name \in Names, target \in Targets : CreateGroup(u, name, target)
    \/ \E s \in Slots, u \in Users, code \in GroupIds : JoinBegin(s, u, code)
    \/ \E s \in Slots : JoinCommit(s)
    \/ \E u \in Users, g \in GroupIds, target \in Users : ApproveMember(u, g, target)
    \/ \E u \in Users, g \in GroupIds, target \in Users : RejectMember(u, g, target)

SpecConc == Init /\ [][NextConc]_vars

\* ------------------------- a decision, statement by statement, and a crash
\* approve_member, reject_member, approve_contribution and reject_contribution
\* run their UPDATE and their INSERTs with cursor.execute on one connection
\* and call conn.commit() once, after the last INSERT. The connection is in
\* sqlite3's default mode: the first UPDATE opens a transaction, and what the
\* transaction wrote reaches the database at the commit.

\* One statement of a handler, as executed.
Statement(kind, g, u, c, value) ==
    [kind |-> kind, group |-> g, user |-> u, id |-> c, value |-> value]

\* The three tables a decision writes, as one value.
Tables ==
    [group_members |-> group_members, contributions |-> contributions,
     notifications |-> notifications]

ApplyStatement(db, st) ==
    IF st.kind = "update_member"
    THEN [db EXCEPT !.group_members = UpdateMemberStatus(@, st.group, st.user, st.value)]
    ELSE IF st.kind = "update_contribution"
    THEN [db EXCEPT !.contributions = UpdateContributionStatus(@, st.id, st.value)]
    ELSE [db EXCEPT !.notifications = Append(@, NotificationRow(st.user, st.group, st.value))]

RECURSIVE ApplyAll(_, _)
ApplyAll(db, statements) ==
    IF statements = <<>> THEN db
    ELSE ApplyAll(ApplyStatement(db, Head(statements)), Tail(statements))

\* The rows the handler's second SELECT must find.
DecisionFound(op, g, target) ==
    IF op = "approve_member" THEN MembershipRowsIn(g, target, ApprovableStatuses) # {}
    ELSE IF op = "reject_member" THEN MembershipRowsIn(g, target, RejectableStatuses) # {}
    ELSE IF op = "approve_contribution" THEN ApprovableContribution(target, g) # {}
    ELSE RejectableContribution(target, g) # {}

\* One INSERT INTO notifications per row of `members`, as statements.
InsertEach(members, g, message) ==
    [i \in DOMAIN members |->
        Statement("insert_notification", g, members[i].user_id, 0, message)]

\* The statements the handler executes between its checks and its commit.
DecisionStatements(op, u, g, target) ==
    IF op = "approve_member"
    THEN <<Statement("update_member", g, target, 0, "active"),
           Statement("insert_notification", g, target, 0, "join_approved")>>
    ELSE IF op = "reject_member"
    THEN <<Statement("update_member", g, target, 0, "rejected"),
           Statement("insert_notification", g, target, 0, "join_rejected")>>
    ELSE IF op = "approve_contribution"
    THEN LET contributor == contributions[target].user_id IN
         <<Statement("update_contribution", g, contributor, target, "approved"),
           Statement("insert_notification", g, contributor, 0, "contribution_approved")>>
         \o InsertEach(ActiveMemberIds(g, {contributor, u}), g, "contributed")
    ELSE <<Statement("update_contribution", g, contributions[target].user_id, target,
                     "rejected"),
           Statement("insert_notification", g, contributions[target].user_id, 0,
                     "contribution_rejected")>>

DecisionOps ==
    {"approve_member", "reject_member", "approve_contribution", "reject_contribution"}

\* <int:user_id> or <int:contribution_id> of the route.
DecisionTargets(op) ==
    IF op \in {"approve_member", "reject_member"} THEN Users ELSE ContribIds

\* No request is between its checks and its commit.
AllIdle == \A s \in Slots : inflight[s] = Idle

\* The handler up to its last check.
DecisionBegin(s, op, u, g, target) ==
    /\ inflight[s] = Idle
    /\ UNCHANGED <<groups, group_members, contributions, notifications, page>>
    /\ IF ~IsAdmin(g, u)
       THEN /\ last' = Call(op, u, g, target, "Unauthorized")
            /\ UNCHANGED inflight
       ELSE IF ~DecisionFound(op, g, target)
       THEN /\ last' = Call(op, u, g, target, "NotFound")
            /\ UNCHANGED inflight
       ELSE LET todo == DecisionStatements(op, u, g, target) IN
            /\ Unread(notifications) + Len(todo) - 1 <= MaxNotifs
            /\ inflight' = [inflight EXCEPT ![s] =
                    [op |-> op, user |-> u, group |-> g, target |-> target,
                     todo |-> todo, wrote |-> <<>>]]
            /\ UNCHANGED last

\* Another connection has written and not yet committed: it holds the
\* database's write lock.
WriteLocked(s) ==
    \E t \in Slots \ {s} : inflight[t].op \in DecisionOps /\ inflight[t].wrote # <<>>

\* cursor.execute of the next UPDATE or INSERT: written, not committed. The
\* UPDATE comes first and waits for the write lock; the SELECTs that follow it
\* read the tables as they are then, so the INSERTs are those of that moment.
DecisionExecute(s) ==
    /\ inflight[s].op \in DecisionOps
    /\ inflight[s].todo # <<>>
    /\ ~WriteLocked(s)
    /\ LET todo == IF inflight[s].wrote = <<>>
                   THEN DecisionStatements(inflight[s].op, inflight[s].user,
                                           inflight[s].group, inflight[s].target)
                   ELSE inflight[s].todo
       IN  inflight' = [inflight EXCEPT ![s].todo = Tail(todo),
                                        ![s].wrote = Append(@, Head(todo))]
    /\ UNCHANGED <<groups, group_members, contributions, notifications, last, page>>

\* conn.commit() and the response.
DecisionCommit(s) ==
    /\ inflight[s].op \in DecisionOps
    /\ inflight[s].todo = <<>>
    /\ LET db == ApplyAll(Tables, inflight[s].wrote) IN
        /\ group_members' = db.group_members
        /\ contributions' = db.contributions
        /\ notifications' = db.notifications
    /\ last' = Call(inflight[s].op, inflight[s].user, inflight[s].group,
                    inflight[s].target, "Success")
    /\ inflight' = [inflight EXCEPT ![s] = Idle]
    /\ UNCHANGED <<groups, page>>

\* What the database holds once the process has died with `wrote` executed
\* and not committed: the transaction is rolled back.
\* (faulty variant: every statement is committed as it is executed)
PersistedAutocommit(db, wrote) == ApplyAll(db, wrote)
Persisted(db, wrote) == db

\* Where the process died: before the UPDATE, between the UPDATE and the
\* first INSERT, or after an INSERT.
CrashPoint(wrote) ==
    IF wrote = <<>> THEN "CrashedBeforeUpdate"
    ELSE IF Len(wrote) = 1 THEN "CrashedAfterUpdate"
    ELSE "CrashedAfterInsert"

CrashPoints == {"CrashedBeforeUpdate", "CrashedAfterUpdate", "CrashedAfterInsert"}

\* The process dies before conn.commit() and is started again.
Crash(s) ==
    /\ inflight[s].op \in DecisionOps
    /\ LET db == Persisted(Tables, inflight[s].wrote) IN
        /\ group_members' = db.group_members
        /\ contributions' = db.contributions
        /\ notifications' = db.notifications
    /\ last' = Call(inflight[s].op, inflight[s].user, inflight[s].group,
                    inflight[s].target, CrashPoint(inflight[s].wrote))
    /\ inflight' = [t \in Slots |-> Idle]
    /\ UNCHANGED <<groups, page>>

NextCrash ==
    \/ AllIdle /\ \E u \in Users, name \in Names, target \in Targets :
            CreateGroup(u, name, target)
    \/ AllIdle /\ \E u \in Users, code \in GroupIds : JoinGroup(u, code)
    \/ AllIdle /\ \E u \in Users, g \in GroupIds, amount \in Amounts, upload \in Uploads :
            Contribute(u, g, amount, upload)
    \/ AllIdle /\ \E s \in Slots, op \in DecisionOps, u \in Users, g \in GroupIds :
            \E target \in DecisionTargets(op) : DecisionBegin(s, op, u, g, target)
    \/ \E s \in Slots : DecisionExecute(s)
    \/ \E s \in Slots : DecisionCommit(s)
    \/ \E s \in Slots : Crash(s)

SpecCrash == Init /\ [][NextCrash]_vars

\* ------------------------------------ group_detail, api_group_progress
\* SUM(amount) over the selected rows, 0 for none (COALESCE).
RECURSIVE SumAmounts(_)
SumAmounts(rows) ==
    IF rows = <<>> THEN 0 ELSE Head(rows).amount + SumAmounts(Tail(rows))

\* Database.get_total_contributions(group_id, status)
GetTotalContributions(g, status) ==
    SumAmounts(SelectSeq(contributions,
                         LAMBDA r : r.group_id = g /\ r.status = status))

\* group_detail: `total_contributed`
\* (faulty variant: the status filter is missing)
TotalContributedAnyStatus(g) ==
    SumAmounts(SelectSeq(contributions, LAMBDA r : r.group_id = g))
TotalContributed(g) ==
    SumAmounts(SelectSeq(contributions,
                         LAMBDA r : r.group_id = g /\ r.status = "approved"))

\* api_group_progress: `total_contributed`, summed over every status
ApiTotalContributed(g) ==
    SumAmounts(SelectSeq(contributions, LAMBDA r : r.group_id = g))

\* The quotient n / d of a float division, d > 0, kept exact: a fraction in
\* lowest terms.
RECURSIVE GCD(_, _)
GCD(a, b) == IF b = 0 THEN a ELSE GCD(b, a % b)

Ratio(n, d) ==
    LET k == GCD(IF n < 0 THEN 0 - n ELSE n, d)
    IN  [num |-> n \div k, den |-> d \div k]

\* (total_contributed / target_amount) * 100 if target_amount > 0 else 0
\* (faulty variant: the quotient is not scaled to a percentage)
ProgressFraction(total_contributed, target_amount) ==
    IF target_amount > 0 THEN Ratio(total_contributed, target_amount)
    ELSE Ratio(0, 1)
ProgressPercentage(total_contributed, target_amount) ==
    IF target_amount > 0 THEN Ratio(total_contributed * 100, target_amount)
    ELSE Ratio(0, 1)

\* api_group_progress: 'percentage'
ApiPercentage(total_contributed, target_amount) ==
    IF target_amount > 0 THEN Ratio(total_contributed * 100, target_amount)
    ELSE Ratio(0, 1)

GroupDetail(u, g) ==
    /\ UNCHANGED <<groups, group_members, contributions, notifications, last, inflight>>
    /\ page' = IF ~IsActiveMember(g, u)
               THEN Page("group_detail", u, g, "redirect", 0, Ratio(0, 1))
               ELSE Page("group_detail", u, g, "ok", TotalContributed(g),
                         ProgressPercentage(TotalContributed(g),
                                            groups[g].target_amount))

ApiGroupProgress(u, g) ==
    /\ UNCHANGED <<groups, group_members, contributions, notifications, last, inflight>>
    /\ page' = IF MembershipRows(g, u) = {}
               THEN Page("api_group_progress", u, g, "denied", 0, Ratio(0, 1))
               ELSE Page("api_group_progress", u, g, "ok", ApiTotalContributed(g),
                         ApiPercentage(ApiTotalContributed(g),
                                       groups[g].target_amount))

\* The progress computation over the rows it reads: one group, created by
\* user 1, with any target and any short list of contributions.
MaxProgressRows == 3
ProgressTargets == {0 - 1000, 0, 500, 1000}
ProgressAmounts == {200, 300}

\* The (proof_image, status) pairs contribute, approve_contribution and
\* reject_contribution leave in a row.
StoredProofAndStatus ==
    {<<"None", "approved">>, <<"proof", "pending">>, <<"proof", "approved">>,
     <<"proof", "rejected">>}

ProgressRows ==
    {ContributionRow(1, 1, a, ps[1], ps[2]) :
        a \in ProgressAmounts, ps \in StoredProofAndStatus}

InitProgress ==
    \E target \in ProgressTargets, n \in 0..MaxProgressRows :
        \E rows \in [1..n -> ProgressRows] :
            /\ groups = <<GroupRow("name", target, 1, 1)>>
            /\ group_members = <<MemberRow(1, 1, "active")>>
            /\ contributions = rows
            /\ notifications = <<>>
            /\ last = Call("none", 0, 0, 0, "none")
            /\ inflight = [s \in Slots |-> Idle]
            /\ page = NoPage

NextProgress ==
    \/ \E u \in Users, g \in GroupIds : GroupDetail(u, g)
    \/ \E u \in Users, g \in GroupIds : ApiGroupProgress(u, g)

SpecProgress == InitProgress /\ [][NextProgress]_vars

\* ------------------------------- contributions in a group already formed
\* Users with an account in this setting; user 1 created group 1.
NumMembers == 4
Members == 1..NumMembers

\* What a user's join request has come to: never sent, waiting, approved,
\* refused.
SeedStatuses == {"none", "pending", "active", "rejected"}

\* mark_notification_read: UPDATE notifications SET is_read = TRUE WHERE id = ?
ReadRow(n) == [n EXCEPT !.is_read = TRUE]

\* The rows join_group inserted for the users u, u + 1, ... who asked to join
\* group 1, with the status approve_member / reject_member left them in.
RECURSIVE SeedMembers(_, _)
SeedMembers(st, u) ==
    IF u > NumMembers THEN <<>>
    ELSE (IF st[u] = "none" THEN <<>> ELSE <<MemberRow(1, u, st[u])>>)
         \o SeedMembers(st, u + 1)

\* The notifications those requests and their answers inserted, each one read
\* by its recipient since.
RECURSIVE SeedNotifications(_, _)
SeedNotifications(st, u) ==
    IF u > NumMembers THEN <<>>
    ELSE (IF st[u] = "none" THEN <<>>
          ELSE <<ReadRow(NotificationRow(1, 1, "join_requested")),
                 ReadRow(NotificationRow(u, 1, "join_pending"))>>
               \o (IF st[u] = "active"
                   THEN <<ReadRow(NotificationRow(u, 1, "join_approved"))>>
                   ELSE IF st[u] = "rejected"
                   THEN <<ReadRow(NotificationRow(u, 1, "join_rejected"))>>
                   ELSE <<>>))
         \o SeedNotifications(st, u + 1)

\* Group 1 after create_group by user 1, the join requests of the other users
\* and the creator's answers to them; no contribution yet.
InitGroup ==
    \E st \in [2..NumMembers -> SeedStatuses] :
        /\ groups = <<GroupRow("name", 1, 1, 1)>>
        /\ group_members = <<MemberRow(1, 1, "active")>> \o SeedMembers(st, 2)
        /\ contributions = <<>>
        /\ notifications = SeedNotifications(st, 2)
        /\ last = Call("none", 0, 0, 0, "none")
        /\ inflight = [s \in Slots |-> Idle]
        /\ page = NoPage

NextGroup ==
    \/ \E u \in Members, g \in GroupIds, amount \in Amounts, upload \in Uploads :
            Contribute(u, g, amount, upload)
    \/ \E u \in Members, g \in GroupIds, c \in ContribIds : ApproveContribution(u, g, c)
    \/ \E u \in Members, g \in GroupIds, c \in ContribIds : RejectContribution(u, g, c)

SpecGroup == InitGroup /\ [][NextGroup]_vars

\* ------------------------------------------------ mark_notification_read
\* <int:notification_id> of the route: the id of a row, or one past the last.
NotificationIds == 1..(Len(notifications) + 1)

\* UPDATE notifications SET is_read = TRUE WHERE id = ? AND user_id = ?
\* (faulty variant: the WHERE clause names the id only)
MarkReadAnyUser(table, n, u) ==
    [i \in DOMAIN table |->
        IF i = n THEN ReadRow(table[i]) ELSE table[i]]
MarkRead(table, n, u) ==
    [i \in DOMAIN table |->
        IF i = n /\ table[i].user_id = u THEN ReadRow(table[i]) ELSE table[i]]

MarkNotificationRead(u, n) ==
    /\ notifications' = MarkRead(notifications, n, u)
    /\ last' = Call("mark_notification_read", u, 0, n, "Success")
    /\ UNCHANGED <<groups, group_members, contributions, inflight, page>>

\* Group 1 as in InitGroup, the users who asked to join it being among Users.
InitNotifications ==
    \E st \in [2..NumMembers -> SeedStatuses] :
        /\ \A u \in (2..NumMembers) \ Users : st[u] = "none"
        /\ groups = <<GroupRow("name", 1, 1, 1)>>
        /\ group_members = <<MemberRow(1, 1, "active")>> \o SeedMembers(st, 2)
        /\ contributions = <<>>
        /\ notifications = SeedNotifications(st, 2)
        /\ last = Call("none", 0, 0, 0, "none")
        /\ inflight = [s \in Slots |-> Idle]
        /\ page = NoPage

\* The contribution workflow of that group, and its users reading their
\* notifications.
NextNotifications ==
    \/ \E u \in Users, g \in GroupIds, amount \in Amounts, upload \in Uploads :
            Contribute(u, g, amount, upload)
    \/ \E u \in Users, g \in GroupIds, c \in ContribIds : ApproveContribution(u, g, c)
    \/ \E u \in Users, g \in GroupIds, c \in ContribIds : RejectContribution(u, g, c)
    \/ \E u \in Users, n \in NotificationIds : MarkNotificationRead(u, n)

SpecNotifications == InitNotifications /\ [][NextNotifications]_vars

\* ---------------------------------------------------- export_group_data
\* current_user.is_premium, as premium_required reads it.
Premium == {FALSE, TRUE}

\* (faulty variant: the membership must be active, as in group_detail)
ExportGroupDataActiveOnly(u, g, is_premium) ==
    /\ UNCHANGED <<groups, group_members, contributions, notifications, last, inflight>>
    /\ page' = IF ~is_premium
               THEN Page("export_group_data", u, g, "pricing", 0, Ratio(0, 1))
               ELSE IF ~IsActiveMember(g, u)
               THEN Page("export_group_data", u, g, "redirect", 0, Ratio(0, 1))
               ELSE Page("export_group_data", u, g, "ok", 0, Ratio(0, 1))
ExportGroupData(u, g, is_premium) ==
    /\ UNCHANGED <<groups, group_members, contributions, notifications, last, inflight>>
    /\ page' = IF ~is_premium
               THEN Page("export_group_data", u, g, "pricing", 0, Ratio(0, 1))
               ELSE IF MembershipRows(g, u) = {}
               THEN Page("export_group_data", u, g, "redirect", 0, Ratio(0, 1))
               ELSE Page("export_group_data", u, g, "ok", 0, Ratio(0, 1))

\* The endpoints that check the caller's membership, in a group formed as in
\* InitNotifications.
NextAccess ==
    \/ \E u \in Users, g \in GroupIds : GroupDetail(u, g)
    \/ \E u \in Users, g \in GroupIds : ApiGroupProgress(u, g)
    \/ \E u \in Users, g \in GroupIds, is_premium \in Premium :
            ExportGroupData(u, g, is_premium)
    \/ \E u \in Users, g \in GroupIds, amount \in Amounts, upload \in Uploads :
            Contribute(u, g, amount, upload)

SpecAccess == InitNotifications /\ [][NextAccess]_vars

\* ------------------------------------------- decisions, several requests
\* sqlite3.connect waits five seconds for the write lock and raises
\* OperationalError (database is locked) after that: the request that waited
\* writes nothing.
DecisionLocked(s) ==
    /\ inflight[s].op \in DecisionOps
    /\ inflight[s].wrote = <<>>
    /\ WriteLocked(s)
    /\ last' = Call(inflight[s].op, inflight[s].user, inflight[s].group,
                    inflight[s].target, "DatabaseLocked")
    /\ inflight' = [inflight EXCEPT ![s] = Idle]
    /\ UNCHANGED <<groups, group_members, contributions, notifications, page>>

\* The decisions of the creator of a group formed as in InitNotifications,
\* each request on a connection of its own: a request runs its checks while
\* another is between its checks and its commit, and a member's contribute
\* request is served whenever no decision holds the write lock.
NextRace ==
    \/ /\ \A s \in Slots : ~WriteLocked(s)
       /\ \E u \in Users, g \in GroupIds, amount \in Amounts, upload \in Uploads :
            Contribute(u, g, amount, upload)
    \/ \E s \in Slots, op \in DecisionOps, u \in Users, g \in GroupIds :
            \E target \in DecisionTargets(op) : DecisionBegin(s, op, u, g, target)
    \/ \E s \in Slots : DecisionExecute(s)
    \/ \E s \in Slots : DecisionCommit(s)
    \/ \E s \in Slots : DecisionLocked(s)

SpecRace == InitNotifications /\ [][NextRace]_vars

\* ------------------------------------------------- statistics by member
\* One entry of the list get_member_contribution_stats returns (the username
\* is the user's id here; the picture and the date are not kept).
MemberStat(g, u) ==
    LET contribs == SelectSeq(contributions,
                        LAMBDA r : /\ r.group_id = g
                                   /\ r.user_id = u
                                   /\ r.status = "approved")
    IN  [username |-> u, total |-> SumAmounts(contribs), count |-> Len(contribs)]

\* sorted(stats, key=lambda x: x['total'], reverse=True): `stat` put into a
\* list already sorted, after the entries with a total at least its own.
InsertByTotal(stat, sorted) ==
    LET before == SelectSeq(sorted, LAMBDA x : x.total >= stat.total)
        after == SelectSeq(sorted, LAMBDA x : x.total < stat.total)
    IN  before \o <<stat>> \o after

RECURSIVE SortedByTotal(_)
SortedByTotal(stats) ==
    IF stats = <<>> THEN <<>>
    ELSE InsertByTotal(stats[Len(stats)],
                       SortedByTotal(SubSeq(stats, 1, Len(stats) - 1)))

\* Database.get_member_contribution_stats(group_id)
GetMemberContributionStats(g) ==
    LET members == ActiveMemberIds(g, {})
    IN  SortedByTotal([i \in DOMAIN members |-> MemberStat(g, members[i].user_id)])

\* =============================================================== claims
\* What the properties below read, stated apart from the handlers' own checks.
CreatorOf(g) == IF g \in DOMAIN groups THEN groups[g].created_by ELSE 0

StatusIn(table, g, u) ==
    {table[i].status : i \in {j \in DOMAIN table :
        table[j].group_id = g /\ table[j].user_id = u}}

StatusOf(g, u) == StatusIn(group_members, g, u)

AdminOps ==
    {"approve_member", "reject_member", "approve_contribution", "reject_contribution"}

ContributionOps == {"approve_contribution", "reject_contribution"}

\* The tables the workflows write.
Added(table, n) == Len(table') = Len(table) + n /\ SubSeq(table', 1, Len(table)) = table

\* C1: a contribution's status only ever steps pending -> approved or
\* pending -> rejected; approved and rejected rows keep their status, and no row
\* is removed or rewritten otherwise.
C1_ContributionStatusOnce ==
    [][/\ Len(contributions') >= Len(contributions)
       /\ \A c \in DOMAIN contributions :
            /\ [contributions'[c] EXCEPT !.status = contributions[c].status]
                    = contributions[c]
            /\ contributions'[c].status # contributions[c].status
                    => /\ contributions[c].status = "pending"
                       /\ contributions'[c].status \in {"approved", "rejected"}]_vars

\* A contribution has been rejected by the creator.
C1_Witness ==
    /\ last.op = "reject_contribution"
    /\ last.result = "Success"
    /\ contributions[last.target].status = "rejected"

\* C2: a membership's status only ever steps pending -> active,
\* pending -> rejected or rejected -> active; an active membership keeps its
\* status, and no membership row is removed.
C2_MembershipTransitions ==
    [][/\ Len(group_members') >= Len(group_members)
       /\ \A i \in DOMAIN group_members :
            /\ [group_members'[i] EXCEPT !.status = group_members[i].status]
                    = group_members[i]
            /\ group_members'[i].status # group_members[i].status
                    => <<group_members[i].status, group_members'[i].status>> \in
                            {<<"pending", "active">>, <<"pending", "rejected">>,
                             <<"rejected", "active">>}]_vars

\* A rejected membership has been approved afterwards.
C2_Witness ==
    /\ last.op = "approve_member"
    /\ last.result = "Success"
    /\ StatusOf(last.group, last.target) = {"active"}
    /\ \E n \in DOMAIN notifications :
            /\ notifications[n].message = "join_rejected"
            /\ notifications[n].user_id = last.target
            /\ notifications[n].group_id = last.group

\* C3: an approve/reject of a membership or a contribution by a user who is not
\* the creator of the group named in the request answers Unauthorized and
\* leaves memberships, contributions and notifications as they were.
C3_NonCreatorUnauthorized ==
    [][(last'.op \in AdminOps /\ CreatorOf(last'.group) # last'.user)
        => /\ last'.result = "Unauthorized"
           /\ UNCHANGED <<group_members, contributions, notifications>>]_vars

\* An active member who is not the creator tried to approve a pending
\* contribution of the group.
C3_Witness ==
    /\ last.op = "approve_contribution"
    /\ last.result = "Unauthorized"
    /\ last.group \in DOMAIN groups
    /\ StatusOf(last.group, last.user) = {"active"}
    /\ last.target \in DOMAIN contributions
    /\ contributions[last.target].group_id = last.group
    /\ contributions[last.target].status = "pending"

\* C4: no two rows of group_members hold the same (group, user) pair.
C4_OneMembershipPerPair ==
    \A i, j \in DOMAIN group_members :
        (/\ group_members[i].group_id = group_members[j].group_id
         /\ group_members[i].user_id = group_members[j].user_id) => i = j

\* A second INSERT for a pair that already has a row was attempted and refused.
C4_Witness ==
    /\ last.op = "join_group"
    /\ last.result = "IntegrityError"
    /\ StatusOf(last.group, last.user) # {}

\* C5: a join_group for a pair that already has a membership row, whatever its
\* status, answers AlreadyMember, leaves every membership as it was and adds
\* no notification.
C5_RejoinFails ==
    [][(last'.op = "join_group" /\ StatusOf(last'.group, last'.user) # {})
        => /\ last'.result = "AlreadyMember"
           /\ UNCHANGED <<group_members, notifications>>]_vars

\* A user whose request was rejected asked again and was refused.
C5_Witness ==
    /\ last.op = "join_group"
    /\ last.result = "AlreadyMember"
    /\ StatusOf(last.group, last.user) = {"rejected"}

\* C6: the row a successful contribute inserts is pending exactly when it
\* carries a proof reference and approved exactly when it carries none.
C6_InitialStatusByProof ==
    [][(last'.op = "contribute" /\ last'.result = "Success")
        => /\ Added(contributions, 1)
           /\ last'.target = Len(contributions')
           /\ LET row == contributions'[Len(contributions')] IN
                /\ row.status = "pending" <=> row.proof_image # "None"
                /\ row.status = "approved" <=> row.proof_image = "None"]_vars

\* A contribution with proof has just been submitted and is pending.
C6_Witness ==
    /\ last.op = "contribute"
    /\ last.result = "Success"
    /\ contributions[last.target].proof_image # "None"
    /\ contributions[last.target].status = "pending"

\* C7: every stored contribution has amount > 0.
C7_StoredAmountsPositive ==
    \A c \in DOMAIN contributions : contributions[c].amount > 0

\* C8: a contribute by a user without an active membership in the group answers
\* NotAMember and adds neither a contribution nor a notification; every
\* contribution row is inserted by a contribute of an active member.
C8_OnlyActiveMembersContribute ==
    [][/\ (last'.op = "contribute" /\ StatusOf(last'.group, last'.user) # {"active"})
            => /\ last'.result = "NotAMember"
               /\ UNCHANGED <<contributions, notifications>>
       /\ Len(contributions') > Len(contributions)
            => /\ last'.op = "contribute"
               /\ StatusOf(last'.group, last'.user) = {"active"}
               /\ contributions'[Len(contributions')].group_id = last'.group
               /\ contributions'[Len(contributions')].user_id = last'.user]_vars

\* A user whose membership is pending tried to contribute.
C8_Witness ==
    /\ last.op = "contribute"
    /\ last.result = "NotAMember"
    /\ StatusOf(last.group, last.user) = {"pending"}

\* C9: an approve or reject of a contribution that is already approved or
\* rejected changes no contribution and adds no notification; asked by the
\* creator of the contribution's group it answers NotFound.
C9_SecondDecisionNotFound ==
    [][(/\ last'.op \in ContributionOps
        /\ last'.target \in DOMAIN contributions
        /\ contributions[last'.target].status \in {"approved", "rejected"})
        => /\ UNCHANGED <<contributions, notifications>>
           /\ CreatorOf(last'.group) = last'.user => last'.result = "NotFound"
           /\ last'.result \in {"NotFound", "Unauthorized"}]_vars

\* The creator asked to approve a contribution that a review had rejected.
C9_Witness ==
    /\ last.op = "approve_contribution"
    /\ last.result = "NotFound"
    /\ CreatorOf(last.group) = last.user
    /\ last.target \in DOMAIN contributions
    /\ contributions[last.target].group_id = last.group
    /\ contributions[last.target].status = "rejected"

\* C10: approve_member by the group's creator succeeds exactly when the pair
\* has a pending or rejected membership; then that membership becomes active,
\* no other membership changes and one notification, to the approved user, is
\* added; otherwise it answers NotFound and changes nothing.
C10_ApproveMember ==
    [][(last'.op = "approve_member" /\ CreatorOf(last'.group) = last'.user)
        => IF StatusOf(last'.group, last'.target) \cap {"pending", "rejected"} # {}
           THEN /\ last'.result = "Success"
                /\ StatusIn(group_members', last'.group, last'.target) = {"active"}
                /\ \A i \in DOMAIN group_members :
                        (group_members[i].group_id # last'.group
                            \/ group_members[i].user_id # last'.target)
                        => group_members'[i] = group_members[i]
                /\ Len(group_members') = Len(group_members)
                /\ Added(notifications, 1)
                /\ notifications'[Len(notifications')].user_id = last'.target
                /\ UNCHANGED <<groups, contributions>>
           ELSE /\ last'.result = "NotFound"
                /\ UNCHANGED <<groups, group_members, contributions, notifications>>]_vars

\* The creator approved a pending request.
C10_Witness ==
    /\ last.op = "approve_member"
    /\ last.result = "Success"
    /\ CreatorOf(last.group) = last.user
    /\ StatusOf(last.group, last.target) = {"active"}
    /\ notifications[Len(notifications)] =
            NotificationRow(last.target, last.group, "join_approved")

\* C11: reject_member by the group's creator succeeds exactly when the pair
\* has a pending membership; then that membership becomes rejected, no other
\* membership changes and one notification, to the rejected user, is added;
\* with no membership, an active or an already rejected one it answers
\* NotFound and changes nothing.
C11_RejectMember ==
    [][(last'.op = "reject_member" /\ CreatorOf(last'.group) = last'.user)
        => IF StatusOf(last'.group, last'.target) = {"pending"}
           THEN /\ last'.result = "Success"
                /\ StatusIn(group_members', last'.group, last'.target) = {"rejected"}
                /\ \A i \in DOMAIN group_members :
                        (group_members[i].group_id # last'.group
                            \/ group_members[i].user_id # last'.target)
                        => group_members'[i] = group_members[i]
                /\ Len(group_members') = Len(group_members)
                /\ Added(notifications, 1)
                /\ notifications'[Len(notifications')].user_id = last'.target
                /\ UNCHANGED <<groups, contributions>>
           ELSE /\ last'.result = "NotFound"
                /\ UNCHANGED <<groups, group_members, contributions, notifications>>]_vars

\* The creator rejected a pending request, and the creator's own membership
\* is still active.
C11_Witness ==
    /\ last.op = "reject_member"
    /\ last.result = "Success"
    /\ CreatorOf(last.group) = last.user
    /\ last.target # last.user
    /\ StatusOf(last.group, last.target) = {"rejected"}
    /\ StatusOf(last.group, last.user) = {"active"}
    /\ notifications[Len(notifications)] =
            NotificationRow(last.target, last.group, "join_rejected")

\* C12: a join_group with the invite code of an existing group by a user with
\* no membership in it succeeds, inserts one membership, pending, for that
\* pair, and adds two notifications: one to the group's creator and one to the
\* requester.
C12_JoinInsertsPendingAndTwoNotifications ==
    [][(/\ last'.op = "join_group"
        /\ last'.group \in DOMAIN groups
        /\ StatusOf(last'.group, last'.user) = {})
        => /\ last'.result = "Success"
           /\ Added(group_members, 1)
           /\ group_members'[Len(group_members')] =
                    MemberRow(last'.group, last'.user, "pending")
           /\ Added(notifications, 2)
           /\ LET new == {Len(notifications) + 1, Len(notifications) + 2} IN
                /\ \A n \in new : notifications'[n].group_id = last'.group
                /\ Cardinality({n \in new :
                        notifications'[n].user_id = CreatorOf(last'.group)}) = 1
                /\ Cardinality({n \in new :
                        notifications'[n].user_id = last'.user}) = 1
           /\ UNCHANGED <<groups, contributions>>]_vars

\* A user who is not the creator has just asked to join: the last two
\* notifications are the creator's and the requester's.
C12_Witness ==
    /\ last.op = "join_group"
    /\ last.result = "Success"
    /\ StatusOf(last.group, last.user) = {"pending"}
    /\ Len(notifications) >= 2
    /\ notifications[Len(notifications) - 1].user_id = CreatorOf(last.group)
    /\ notifications[Len(notifications)].user_id = last.user
    /\ CreatorOf(last.group) # last.user

\* Every user a request or a table row can name.
Everyone == Users \cup Members

\* How many of the notifications the step added are addressed to user x.
Received(x) ==
    Cardinality({n \in (Len(notifications) + 1)..Len(notifications') :
                    notifications'[n].user_id = x})

\* The step kept every notification and the rows it added are for group g and
\* for known users.
OnlyAppended(g) ==
    /\ Len(notifications') >= Len(notifications)
    /\ SubSeq(notifications', 1, Len(notifications)) = notifications
    /\ \A n \in (Len(notifications) + 1)..Len(notifications') :
            /\ notifications'[n].group_id = g
            /\ notifications'[n].user_id \in Everyone

\* C13: a successful approve_contribution adds one notification for the
\* contributor and one for every active member of the group who is neither
\* the contributor nor the creator who approved; members whose status is
\* pending or rejected get none, and the approving creator gets one only as
\* the contributor.
C13_ApproveContributionNotifies ==
    [][(last'.op = "approve_contribution" /\ last'.result = "Success")
        => LET contributor == contributions[last'.target].user_id IN
           /\ OnlyAppended(last'.group)
           /\ \A x \in Everyone :
                Received(x) =
                    IF x = contributor THEN 1
                    ELSE IF StatusOf(last'.group, x) = {"active"} /\ x # last'.user
                    THEN 1 ELSE 0]_vars

\* The creator approved the contribution of another member while the group
\* had a third active member, who was told, and a member still pending.
C13_Witness ==
    /\ last.op = "approve_contribution"
    /\ last.result = "Success"
    /\ contributions[last.target].user_id # last.user
    /\ \E x \in Everyone \ {last.user, contributions[last.target].user_id} :
            /\ StatusOf(last.group, x) = {"active"}
            /\ notifications[Len(notifications)] =
                    NotificationRow(x, last.group, "contributed")
    /\ \E y \in Everyone : StatusOf(last.group, y) = {"pending"}

\* C14: a successful contribute whose row is pending adds one notification,
\* for the group's creator; one whose row is approved adds one notification
\* for every active member other than the contributor and none for the
\* contributor or for members whose status is pending or rejected.
C14_ContributeNotifies ==
    [][(last'.op = "contribute" /\ last'.result = "Success")
        => /\ OnlyAppended(last'.group)
           /\ contributions'[last'.target].status \in {"pending", "approved"}
           /\ \A x \in Everyone :
                Received(x) =
                    IF contributions'[last'.target].status = "pending"
                    THEN (IF x = CreatorOf(last'.group) THEN 1 ELSE 0)
                    ELSE IF StatusOf(last'.group, x) = {"active"} /\ x # last'.user
                    THEN 1 ELSE 0]_vars

\* A member who is not the creator contributed without proof while the group
\* had a member still pending: the creator was told, being an active member.
C14_Witness ==
    /\ last.op = "contribute"
    /\ last.result = "Success"
    /\ contributions[last.target].status = "approved"
    /\ last.user # CreatorOf(last.group)
    /\ \E n \in DOMAIN notifications :
            notifications[n] =
                NotificationRow(CreatorOf(last.group), last.group, "contributed")
    /\ \E y \in Everyone : StatusOf(last.group, y) = {"pending"}

C16_OtherGroupsContributionNotFound ==
    [][(/\ last'.op \in ContributionOps
        /\ CreatorOf(last'.group) = last'.user
        /\ last'.target \in DOMAIN contributions
        /\ contributions[last'.target].group_id # last'.group)
        => /\ last'.result = "NotFound"
           /\ UNCHANGED <<contributions, notifications>>]_vars

\* The creator of one group asked to approve a pending contribution of
\* another group.
C16_Witness ==
    /\ last.op = "approve_contribution"
    /\ last.result = "NotFound"
    /\ CreatorOf(last.group) = last.user
    /\ last.target \in DOMAIN contributions
    /\ contributions[last.target].group_id # last.group
    /\ contributions[last.target].status = "pending"

\* The sum of the amounts of the rows of `table` whose index is in S.
RECURSIVE SumOver(_, _)
SumOver(table, S) ==
    IF S = {} THEN 0
    ELSE LET i == CHOOSE j \in S : TRUE
         IN  table[i].amount + SumOver(table, S \ {i})

ApprovedOf(table, g) ==
    {i \in DOMAIN table : table[i].group_id = g /\ table[i].status = "approved"}

\* C17: the total of a group is the sum of the amounts of its approved
\* contributions, 0 when it has none; a contribution submitted with proof
\* leaves the total as it was while pending, approving it raises the total by
\* its amount, and rejecting one changes no total.
C17_TotalCountsApproved ==
    [][\A g \in GroupIds :
        /\ TotalContributed(g)' = SumOver(contributions', ApprovedOf(contributions', g))
        /\ GetTotalContributions(g, "approved")' = TotalContributed(g)'
        /\ (/\ last'.op = "contribute"
            /\ last'.result = "Success"
            /\ contributions'[last'.target].status = "pending")
            => TotalContributed(g)' = TotalContributed(g)
        /\ (last'.op = "approve_contribution" /\ last'.result = "Success")
            => TotalContributed(g)' =
                    IF g = last'.group
                    THEN TotalContributed(g) + contributions[last'.target].amount
                    ELSE TotalContributed(g)
        /\ (last'.op = "reject_contribution" /\ last'.result = "Success")
            => TotalContributed(g)' = TotalContributed(g)]_vars

\* A contribution of 1 submitted with proof has been approved: the total of
\* its group is 1.
C17_Witness ==
    /\ last.op = "approve_contribution"
    /\ last.result = "Success"
    /\ contributions[last.target].proof_image # "None"
    /\ contributions[last.target].amount = 1
    /\ TotalContributed(last.group) = 1

\* C18: the percentage group_detail shows is (sum of the approved amounts) /
\* target_amount * 100 when target_amount > 0 and 0 when target_amount <= 0,
\* whatever the contributions; target 1000 with approved contributions of 300
\* and 200 gives 50.
C18_ProgressPercentage ==
    (page.endpoint = "group_detail" /\ page.answer = "ok")
        => LET target == groups[page.group].target_amount
               approved == ApprovedOf(contributions, page.group)
               sum == SumOver(contributions, approved)
           IN  /\ page.percentage.den > 0
               /\ IF target > 0
                  THEN page.percentage.num * target = sum * 100 * page.percentage.den
                  ELSE page.percentage.num = 0
               /\ (target = 1000 /\ sum = 500) => page.percentage = [num |-> 50, den |-> 1]

\* group_detail has shown 50 for a target of 1000 with approved contributions
\* of 300 and 200 and a third contribution still pending.
C18_Witness ==
    /\ page.endpoint = "group_detail"
    /\ page.answer = "ok"
    /\ groups[page.group].target_amount = 1000
    /\ {contributions[i].amount : i \in ApprovedOf(contributions, page.group)}
            = {200, 300}
    /\ Cardinality(ApprovedOf(contributions, page.group)) = 2
    /\ \E i \in DOMAIN contributions : contributions[i].status = "pending"
    /\ page.percentage = [num |-> 50, den |-> 1]

\* C19: in every state api_group_progress would answer the total and the
\* percentage group_detail computes from the approved contributions.
C19_ApiProgressMatchesGroupDetail ==
    \A g \in DOMAIN groups :
        /\ ApiTotalContributed(g) = TotalContributed(g)
        /\ ApiPercentage(ApiTotalContributed(g), groups[g].target_amount)
                = ProgressPercentage(TotalContributed(g), groups[g].target_amount)

\* The process died in this step.
Crashed ==
    /\ \E s \in Slots : inflight[s].op \in DecisionOps /\ inflight'[s] = Idle
    /\ last'.result \in CrashPoints

\* The rows the step added to notifications.
NewNotifications ==
    {notifications'[n] : n \in (Len(notifications) + 1)..Len(notifications')}

\* C20, as stated: when the process dies after the status UPDATE of a decision
\* and before its first notification INSERT, the database holds the new
\* status of the row and not the notification.
C20_CrashLeavesStatusWithoutNotification ==
    [][(Crashed /\ last'.result = "CrashedAfterUpdate")
        => /\ UNCHANGED notifications
           /\ IF last'.op \in ContributionOps
              THEN contributions'[last'.target].status
                        # contributions[last'.target].status
              ELSE StatusIn(group_members', last'.group, last'.target)
                        # StatusOf(last'.group, last'.target)]_vars

\* C20, amended: the status UPDATE and the notification INSERTs of a decision
\* reach the database together, at the handler's one commit; when the process
\* dies before it, wherever between the statements, the database holds
\* neither, and no step changes the status of a row without adding the
\* notification for its user.
C20_StatusAndNotificationCommitTogether ==
    [][/\ Crashed => UNCHANGED <<groups, group_members, contributions, notifications>>
       /\ \A c \in DOMAIN contributions :
            contributions'[c].status # contributions[c].status
                => \E n \in NewNotifications :
                        /\ n.user_id = contributions[c].user_id
                        /\ n.group_id = contributions[c].group_id
       /\ \A i \in DOMAIN group_members :
            group_members'[i].status # group_members[i].status
                => \E n \in NewNotifications :
                        /\ n.user_id = group_members[i].user_id
                        /\ n.group_id = group_members[i].group_id]_vars

\* The process died between the UPDATE and the first INSERT of an
\* approve_contribution: the contribution is still pending and nobody has
\* been told of an approval.
C20_Witness ==
    /\ last.op = "approve_contribution"
    /\ last.result = "CrashedAfterUpdate"
    /\ contributions[last.target].status = "pending"
    /\ \A n \in DOMAIN notifications :
            notifications[n].message # "contribution_approved"

\* C21: a create_group either is refused and writes nothing, or appends one
\* group, with a name and a target amount > 0, and one membership, that of
\* the caller in the new group with status active; so no group is created
\* with an empty name or a target <= 0, and every group has a positive target
\* and an active membership of its creator.
C21_CreateGroup ==
    [][/\ last'.op = "create_group"
            => \/ /\ last'.result = "InvalidInput"
                  /\ UNCHANGED <<groups, group_members, contributions, notifications>>
               \/ /\ last'.result = "Success"
                  /\ Added(groups, 1)
                  /\ last'.group = Len(groups')
                  /\ groups'[Len(groups')].name # ""
                  /\ groups'[Len(groups')].target_amount > 0
                  /\ groups'[Len(groups')].created_by = last'.user
                  /\ Added(group_members, 1)
                  /\ group_members'[Len(group_members')]
                        = MemberRow(Len(groups'), last'.user, "active")
                  /\ UNCHANGED <<contributions, notifications>>
       /\ Len(groups') # Len(groups) => last'.op = "create_group"
       /\ \A g \in DOMAIN groups' :
            /\ groups'[g].target_amount > 0
            /\ StatusIn(group_members', g, groups'[g].created_by) = {"active"}]_vars

\* A second group has just been created, by the creator of the first.
C21_Witness ==
    /\ last.op = "create_group"
    /\ last.result = "Success"
    /\ last.group = Len(groups)
    /\ Len(groups) > 1
    /\ \A g \in DOMAIN groups :
            groups[g].created_by = last.user /\ StatusOf(g, last.user) = {"active"}

\* C22: mark_notification_read sets the read flag of the notification it
\* names when that notification is addressed to the caller, and changes
\* nothing otherwise; no operation clears a read flag, removes a notification
\* or changes its recipient, group or message, and no other operation sets a
\* read flag.
C22_ReadFlagOnlySetByRecipient ==
    [][/\ Len(notifications') >= Len(notifications)
       /\ \A n \in DOMAIN notifications :
            /\ [notifications'[n] EXCEPT !.is_read = notifications[n].is_read]
                    = notifications[n]
            /\ notifications[n].is_read => notifications'[n].is_read
            /\ notifications'[n].is_read # notifications[n].is_read
                    => last'.op = "mark_notification_read"
       /\ last'.op = "mark_notification_read"
            => /\ Len(notifications') = Len(notifications)
               /\ \A n \in DOMAIN notifications :
                    notifications'[n].is_read
                        <=> \/ notifications[n].is_read
                            \/ n = last'.target /\ notifications[n].user_id = last'.user
               /\ UNCHANGED <<groups, group_members, contributions>>]_vars

\* The creator has read the notification of a contribution submitted for
\* review, while a notification of another user is still unread.
C22_Witness ==
    /\ last.op = "mark_notification_read"
    /\ last.target \in DOMAIN notifications
    /\ notifications[last.target].user_id = last.user
    /\ notifications[last.target].message = "contribution_submitted"
    /\ notifications[last.target].is_read
    /\ \E n \in DOMAIN notifications :
            notifications[n].user_id # last.user /\ ~notifications[n].is_read

\* C23, as stated: group_detail and contribute admit the caller exactly when
\* the caller's membership in the group is active, api_group_progress and
\* export_group_data exactly when the caller has a membership of any status;
\* a caller whose membership is pending or rejected is turned away by the
\* first two and served by the last two.
C23_AccessByMembership ==
    [][LET st == StatusOf(page'.group, page'.user) IN
       /\ (page' # page /\ page'.endpoint = "group_detail")
            => (page'.answer = "ok" <=> st = {"active"})
       /\ (page' # page /\ page'.endpoint = "api_group_progress")
            => (page'.answer = "ok" <=> st # {})
       /\ (page' # page /\ page'.endpoint = "export_group_data")
            => (page'.answer = "ok" <=> st # {})
       /\ (last' # last /\ last'.op = "contribute")
            => (last'.result = "Success"
                    <=> StatusOf(last'.group, last'.user) = {"active"})]_vars

\* C23, amended: as stated, except that export_group_data first sends a
\* caller who is not premium to the pricing page; past that, it serves a
\* caller with a membership of any status.
C23_AccessByMembershipAndPremium ==
    [][LET st == StatusOf(page'.group, page'.user) IN
       /\ (page' # page /\ page'.endpoint = "group_detail")
            => (page'.answer = "ok" <=> st = {"active"})
       /\ (page' # page /\ page'.endpoint = "api_group_progress")
            => (page'.answer = "ok" <=> st # {})
       /\ (page' # page /\ page'.endpoint = "export_group_data")
            => \/ page'.answer = "pricing"
               \/ page'.answer = "ok" /\ st # {}
               \/ page'.answer = "redirect" /\ st = {}
       /\ (last' # last /\ last'.op = "contribute")
            => (last'.result = "Success"
                    <=> StatusOf(last'.group, last'.user) = {"active"})]_vars

\* A user whose request to join is pending was refused by contribute and
\* then served by export_group_data.
C23_Witness ==
    /\ last.op = "contribute"
    /\ last.result = "NotAMember"
    /\ page.endpoint = "export_group_data"
    /\ page.answer = "ok"
    /\ page.user = last.user
    /\ page.group = last.group
    /\ StatusOf(page.group, page.user) = {"pending"}

\* How many rows of `table` carry one of `messages`, for user u in group g.
CountMessages(table, g, u, messages) ==
    Cardinality({n \in DOMAIN table :
        /\ table[n].group_id = g
        /\ table[n].user_id = u
        /\ table[n].message \in messages})

\* C24: with the creator's approve_contribution and reject_contribution
\* requests interleaved statement by statement, a contribution's status is
\* written only while it is pending, and the contributors have been sent no
\* more decision notifications than there are decided contributions.
C24_OneDecisionPerContribution ==
    [][/\ \A c \in DOMAIN contributions :
            contributions'[c].status # contributions[c].status
                => contributions[c].status = "pending"
       /\ \A g \in GroupIds, u \in Users :
            CountMessages(notifications', g, u,
                          {"contribution_approved", "contribution_rejected"})
                <= Cardinality({c \in DOMAIN contributions' :
                        /\ contributions'[c].group_id = g
                        /\ contributions'[c].user_id = u
                        /\ contributions'[c].proof_image # "None"
                        /\ contributions'[c].status # "pending"})]_vars

\* C25: with the creator's approve_member and reject_member requests
\* interleaved statement by statement, an active membership is never set to
\* rejected, and a user who was sent the approval of a request is not sent a
\* rejection of it afterwards.
C25_OneDecisionPerMembership ==
    [][/\ \A i \in DOMAIN group_members :
            group_members[i].status = "active"
                => group_members'[i].status # "rejected"
       /\ \A m, n \in DOMAIN notifications' :
            (/\ m < n
             /\ notifications'[m].message = "join_approved"
             /\ notifications'[n].message = "join_rejected")
                => \/ notifications'[m].group_id # notifications'[n].group_id
                   \/ notifications'[m].user_id # notifications'[n].user_id]_vars

\* C26: with two join_group requests of one user for one group interleaved
\* (both pass the existing-membership check before either inserts), the pair
\* has at most one membership row, the requester holds at most one
\* join_pending notification for the group, and the group's creator holds
\* exactly one join_requested notification per requested membership.
C26_OneJoinPersisted ==
    \A g \in DOMAIN groups :
        /\ \A u \in Users :
            /\ Cardinality({i \in DOMAIN group_members :
                    /\ group_members[i].group_id = g
                    /\ group_members[i].user_id = u}) <= 1
            /\ CountMessages(notifications, g, u, {"join_pending"}) <= 1
        /\ CountMessages(notifications, g, CreatorOf(g), {"join_requested"})
                = Cardinality({i \in DOMAIN group_members :
                    /\ group_members[i].group_id = g
                    /\ group_members[i].user_id # CreatorOf(g)})

\* The second of two interleaved requests has been refused at its INSERT, and
\* the first one's membership and two notifications are what is stored.
C26_Witness ==
    /\ last.op = "join_group"
    /\ last.result = "IntegrityError"
    /\ AllIdle
    /\ CountMessages(notifications, last.group, last.user, {"join_pending"}) = 1
    /\ CountMessages(notifications, last.group, CreatorOf(last.group),
                     {"join_requested"}) = 1

\* C27: in every state reached by the workflow operations, the
\* author of every contribution holds a membership with status active in the
\* contribution's group.
C27_AuthorsAreActiveMembers ==
    \A c \in DOMAIN contributions :
        StatusOf(contributions[c].group_id, contributions[c].user_id) = {"active"}

\* C28: in every reachable state a pending or rejected contribution has a
\* proof reference and a contribution without one is approved; a rejection
\* aimed at a contribution without proof leaves it approved.
C28_NoProofMeansApproved ==
    /\ \A c \in DOMAIN contributions :
        /\ contributions[c].status \in {"pending", "rejected"}
                => contributions[c].proof_image # "None"
        /\ contributions[c].proof_image = "None"
                => contributions[c].status = "approved"
    /\ (/\ last.op = "reject_contribution"
        /\ last.target \in DOMAIN contributions
        /\ contributions[last.target].proof_image = "None")
            => last.result # "Success"

\* The creator's reject_contribution aimed at a contribution submitted
\* without proof has been refused.
C28_Witness ==
    /\ last.op = "reject_contribution"
    /\ last.user = CreatorOf(last.group)
    /\ last.result = "NotFound"
    /\ last.target \in DOMAIN contributions
    /\ contributions[last.target].group_id = last.group
    /\ contributions[last.target].proof_image = "None"
    /\ contributions[last.target].status = "approved"

\* C29: over contribute, approve_contribution and reject_contribution calls,
\* the approved total of a group, and with it the progress percentage that
\* group_detail shows, never decreases from one state to the next.
C29_ApprovedTotalNeverDecreases ==
    [][\A g \in DOMAIN groups :
        LET target_amount == groups[g].target_amount
            before == ProgressPercentage(TotalContributed(g), target_amount)
            after == ProgressPercentage(TotalContributed(g)', target_amount)
        IN  /\ TotalContributed(g) <= TotalContributed(g)'
            /\ before.num * after.den <= after.num * before.den]_vars

RECURSIVE SumField(_, _)
SumField(stats, field) ==
    IF stats = <<>> THEN 0
    ELSE Head(stats)[field] + SumField(Tail(stats), field)

\* C30: in every reachable state and for every group, the per-member totals
\* of get_member_contribution_stats add up to get_total_contributions of the
\* group's approved contributions, the per-member counts add up to the number
\* of approved contributions, and the list is ordered by total, largest
\* first.
C30_MemberStatsAddUp ==
    \A g \in DOMAIN groups :
        LET stats == GetMemberContributionStats(g) IN
        /\ SumField(stats, "total") = GetTotalContributions(g, "approved")
        /\ SumField(stats, "count") = Cardinality(ApprovedOf(contributions, g))
        /\ \A i, j \in DOMAIN stats : i < j => stats[i].total >= stats[j].total

====
